---- MODULE Spec2Model ----
(***************************************************************************)
(* Resume scanner frontend: the App component's state (resumeText,         *)
(* jobDescription, analysisResult, isAnalyzing), the UploadSection         *)
(* handlers, the ResultsPanel render function and the mock                 *)
(* AnalysisService, run on a browser event loop: user events and timers    *)
(* are tasks, promise continuations are microtasks that run before the     *)
(* next task.                                                              *)
(*                                                                         *)
(* Strings the code inspects (resumeText, jobDescription) are sequences of *)
(* characters; string literals the code only passes along (alert texts,   *)
(* feedback HTML) are TLA+ strings.  An optional value (undefined / null)  *)
(* is None or Some(v).                                                     *)
(***************************************************************************)
EXTENDS Integers, Sequences, FiniteSets, TLC

VARIABLES
    resumeText,      \* App state, useState('')
    jobDescription,  \* App state, useState('')
    analysisResult,  \* App state, useState(null): None or Some(AnalysisResult)
    isAnalyzing,     \* App state, useState(false)
    inflight,        \* calls of AnalysisService.analyzeResume not yet consumed, oldest first
    now,             \* the clock, in ms
    lastEvent,       \* the step taken last: [kind, arg]
    effects          \* what the step taken last did, in order: <<operation, argument>>

vars == <<resumeText, jobDescription, analysisResult, isAnalyzing, inflight, now,
          lastEvent, effects>>

appVars == <<resumeText, jobDescription, analysisResult, isAnalyzing>>

----------------------------------------------------------------------------
(* Bounds of the model *)

\* longest job description typed into the text area
MaxLen == 2
\* Math.random() is drawn from the grid k / RandDen, k in 0 .. RandDen-1
RandDen == 4
\* latest clock value at which a new event is still taken
MaxTime == 2000
\* the clock advances in steps of TickMs
TickMs == 1000
\* most calls a direct caller of the service keeps in flight
MaxCalls == 1

(* Program constants *)

\* setTimeout(resolve, 2000)
AnalysisDelay == 2000

----------------------------------------------------------------------------
(* Values *)

None == << >>
Some(v) == << v >>
Get(o) == o[1]

Whitespace == {" ", "\n"}

\* String.prototype.trim
RECURSIVE trimStart(_)
trimStart(s) ==
    IF s # << >> /\ Head(s) \in Whitespace THEN trimStart(Tail(s)) ELSE s

RECURSIVE trimEnd(_)
trimEnd(s) ==
    IF s # << >> /\ s[Len(s)] \in Whitespace
    THEN trimEnd(SubSeq(s, 1, Len(s) - 1))
    ELSE s

trim(s) == trimEnd(trimStart(s))

\* a string in a boolean context
Truthy(s) == s # << >>

RECURSIVE SeqsUpTo(_, _)
SeqsUpTo(S, n) ==
    IF n = 0 THEN {<< >>}
    ELSE LET shorter == SeqsUpTo(S, n - 1)
         IN  shorter \cup {Append(s, c) : s \in {t \in shorter : Len(t) = n - 1}, c \in S}

\* what the user can type into the job description text area
JobDescriptions == SeqsUpTo({" ", "a"}, MaxLen)

\* the template literal of handleFileUpload, abbreviated: it begins and ends
\* with a line break and has text in between
mockResumeText == <<"\n", "J", "D", "\n">>

\* the files a user can pick: two PDFs that differ in name and content, and
\* two files that are no PDF by their type (one of them named *.pdf)
Files ==
    { [type |-> "application/pdf", name |-> "cv.pdf",     content |-> "alice"],
      [type |-> "application/pdf", name |-> "resume.pdf", content |-> "bob"],
      [type |-> "text/plain",      name |-> "notes.txt",  content |-> "alice"],
      [type |-> "",                name |-> "broken.pdf", content |-> "bob"] }

Modes == {"ats", "job-match"}

\* the two template literals of the service, by their first heading
atsFeedback == "<div class=\"space-y-6\">...Strengths...ATS Compatibility Score..."
jobMatchFeedback == "<div class=\"space-y-6\">...Strong Matches...Job Match Score..."

\* alert texts
AlertNotPdf == "Please upload a PDF file"
AlertUploaded == "Resume uploaded successfully! (Demo version - using sample resume)"
AlertNoResume == "Please upload a resume first"
AlertNoJobDescription == "Please provide a job description for job-specific analysis"
AlertFailed == "Analysis failed. Please try again."

----------------------------------------------------------------------------
(* AnalysisService *)

\* Math.floor(Math.random() * n) for the draw rnd / RandDen
floorRandomTimes(rnd, n) == (rnd * n) \div RandDen

RandomDraws == 0 .. RandDen - 1

\* interface AnalysisResult; an absent optional score is None
AnalysisResult(mode, atsScore, matchScore, feedback, timestamp) ==
    [mode |-> mode, atsScore |-> atsScore, matchScore |-> matchScore,
     feedback |-> feedback, timestamp |-> timestamp]

generateATSAnalysis(rt, rnd, t) ==
    LET score == floorRandomTimes(rnd, 3) + 7
    IN  AnalysisResult("ats", Some(score), None, atsFeedback, t)

\* generateJobMatchAnalysis with feedback that looks at the job description
generateJobMatchAnalysis_ReadsInput(rt, jd, rnd, t) ==
    LET score == floorRandomTimes(rnd, 4) + 6
    IN  AnalysisResult("job-match", None, Some(score),
                       IF Truthy(jd) THEN jobMatchFeedback ELSE atsFeedback, t)

generateJobMatchAnalysis(rt, jd, rnd, t) ==
    LET score == floorRandomTimes(rnd, 4) + 6
    IN  AnalysisResult("job-match", None, Some(score), jobMatchFeedback, t)

\* the default parameter: mode = 'ats' when the argument is omitted
modeOrDefault(modeArg) == IF modeArg = "undefined" THEN "ats" ELSE modeArg

\* jobDescription || ''
orEmpty(jd) == IF jd = None \/ ~Truthy(Get(jd)) THEN << >> ELSE Get(jd)

\* analyzeResume without the default of its mode parameter
analyzeResume_NoDefault(rt, jd, modeArg, rnd, t) ==
    IF modeArg = "ats"
    THEN generateATSAnalysis(rt, rnd, t)
    ELSE generateJobMatchAnalysis(rt, orEmpty(jd), rnd, t)

\* analyzeResume after its await: the result it returns
analyzeResume(rt, jd, modeArg, rnd, t) ==
    IF modeOrDefault(modeArg) = "ats"
    THEN generateATSAnalysis(rt, rnd, t)
    ELSE generateJobMatchAnalysis(rt, orEmpty(jd), rnd, t)

\* analyzeResume as the frontend README documents it: one POST to /api/analyze
networkRequests_Fetch(c) ==
    << [method |-> "POST", url |-> "http://localhost:8000/api/analyze",
        contentType |-> "application/json"] >>

\* the requests analyzeResume sends for a call: its body has no fetch, no
\* XMLHttpRequest and no import that makes one
networkRequests(c) == << >>

\* a call of analyzeResume that has reached its await: the timer is armed
NewCall(rt, jd, modeArg, t) ==
    [resumeText |-> rt, jobDescription |-> jd, mode |-> modeArg, startedAt |-> t,
     stage |-> "timer", result |-> None]

\* a timer armed with no delay
TimerDue_NoDelay(c) == now - c.startedAt >= 0

\* the timer of call c is due
TimerDue(c) == now - c.startedAt >= AnalysisDelay

\* a promise has settled and its continuation has not run yet
MicrotaskPending == \E i \in 1 .. Len(inflight) : inflight[i].stage # "timer"

\* a timer is armed and not yet due
TimerWaiting == \E i \in 1 .. Len(inflight) :
    inflight[i].stage = "timer" /\ ~TimerDue(inflight[i])

\* the timer task of the oldest call: the rest of analyzeResume runs and its
\* promise resolves
TimerFire ==
    /\ ~MicrotaskPending
    /\ inflight # << >>
    /\ Head(inflight).stage = "timer"
    /\ TimerDue(Head(inflight))
    /\ \E rnd \in RandomDraws :
        LET c == Head(inflight)
            r == analyzeResume(c.resumeText, c.jobDescription, c.mode, rnd, now)
        IN  inflight' = [inflight EXCEPT ![1] =
                [c EXCEPT !.stage = "resolved", !.result = Some(r)]]
    /\ lastEvent' = [kind |-> "timer", arg |-> Head(inflight).mode]
    /\ effects' = << >>
    /\ UNCHANGED <<appVars, now>>

\* the clock is kept going while a timer waits, and up to MaxTime otherwise
ClockMayAdvance == IF TimerWaiting THEN TRUE ELSE now + TickMs <= MaxTime

\* time passes
Tick ==
    /\ ~MicrotaskPending
    /\ ClockMayAdvance
    /\ now' = now + TickMs
    /\ lastEvent' = [kind |-> "tick", arg |-> "none"]
    /\ effects' = << >>
    /\ UNCHANGED <<appVars, inflight>>

----------------------------------------------------------------------------
(* ResultsPanel *)

\* result.atsScore || result.matchScore || 0
scoreOr0(result) ==
    IF result.atsScore # None /\ Get(result.atsScore) # 0 THEN Get(result.atsScore)
    ELSE IF result.matchScore # None /\ Get(result.matchScore) # 0
         THEN Get(result.matchScore)
    ELSE 0

\* result.atsScore || result.matchScore, as the text it renders to
\* (undefined renders as nothing)
scoreShown(result) ==
    IF result.atsScore # None /\ Get(result.atsScore) # 0 THEN result.atsScore
    ELSE result.matchScore

getScoreColor(score) ==
    IF score >= 8 THEN "text-green-600 bg-green-100"
    ELSE IF score >= 6 THEN "text-yellow-600 bg-yellow-100"
    ELSE "text-red-600 bg-red-100"

getScoreIcon(score) == IF score >= 8 THEN "CheckCircle" ELSE "AlertTriangle"

\* the result card
ResultCard(result) ==
    [view |-> "card",
     title |-> IF result.mode = "ats" THEN "ATS Health Check Results"
               ELSE "Job Match Analysis Results",
     time |-> result.timestamp,
     badge |-> IF result.atsScore # None \/ result.matchScore # None
               THEN Some([color |-> getScoreColor(scoreOr0(result)),
                          icon |-> getScoreIcon(scoreOr0(result)),
                          score |-> scoreShown(result)])
               ELSE None,
     html |-> result.feedback]

\* ResultsPanel that looks at the result before it looks at isAnalyzing
ResultsPanel_ResultFirst(result, analyzing) ==
    IF result # None THEN ResultCard(Get(result))
    ELSE IF analyzing THEN [view |-> "spinner"]
    ELSE [view |-> "empty"]

\* what the component returns for its props
ResultsPanel(result, analyzing) ==
    IF analyzing THEN [view |-> "spinner"]
    ELSE IF result = None THEN [view |-> "empty"]
    ELSE ResultCard(Get(result))

\* what the panel shows in the current state
Panel == ResultsPanel(analysisResult, isAnalyzing)

----------------------------------------------------------------------------
(* UploadSection *)

\* a task (a user event) is taken only between microtasks
TaskMayRun == ~MicrotaskPending

\* handleFileUpload that passes on what it read from the file
handleFileUpload_ReadsFile(file) ==
    IF file.type # "application/pdf"
    THEN /\ effects' = << <<"alert", AlertNotPdf>> >>
         /\ UNCHANGED appVars
    ELSE /\ resumeText' = << file.content >>
         /\ effects' = << <<"setResumeText", "mockResumeText">>, <<"alert", AlertUploaded>> >>
         /\ UNCHANGED <<jobDescription, analysisResult, isAnalyzing>>

\* handleFileUpload that tells a PDF by the file's name
handleFileUpload_ByName(file) ==
    IF file.name \notin {"cv.pdf", "resume.pdf", "broken.pdf"}
    THEN /\ effects' = << <<"alert", AlertNotPdf>> >>
         /\ UNCHANGED appVars
    ELSE /\ resumeText' = mockResumeText
         /\ effects' = << <<"setResumeText", "mockResumeText">>, <<"alert", AlertUploaded>> >>
         /\ UNCHANGED <<jobDescription, analysisResult, isAnalyzing>>

\* handleFileUpload(file)
handleFileUpload(file) ==
    IF file.type # "application/pdf"
    THEN /\ effects' = << <<"alert", AlertNotPdf>> >>
         /\ UNCHANGED appVars
    ELSE /\ resumeText' = mockResumeText
         /\ effects' = << <<"setResumeText", "mockResumeText">>, <<"alert", AlertUploaded>> >>
         /\ UNCHANGED <<jobDescription, analysisResult, isAnalyzing>>

\* onChange of the file input: e.target.files?.[0] && handleFileUpload(...)
FileInputChange ==
    /\ TaskMayRun
    /\ \E f \in Files :
        /\ handleFileUpload(f)
        /\ lastEvent' = [kind |-> "upload", arg |-> f]
    /\ UNCHANGED <<inflight, now>>

\* onChange of the text area: setJobDescription(e.target.value)
JobDescriptionChange ==
    /\ TaskMayRun
    /\ \E v \in JobDescriptions :
        /\ v # jobDescription
        /\ jobDescription' = v
        /\ lastEvent' = [kind |-> "type", arg |-> v]
    /\ effects' = << <<"setJobDescription", "value">> >>
    /\ UNCHANGED <<resumeText, analysisResult, isAnalyzing, inflight, now>>

\* the second button with the disabled attribute of the first
jobMatchButtonDisabled_LikeAts == isAnalyzing \/ ~Truthy(resumeText)

\* the first button disabled only for a missing resume
atsButtonDisabled_NotWhileAnalyzing == ~Truthy(resumeText)

\* the disabled attribute of the two buttons
atsButtonDisabled == isAnalyzing \/ ~Truthy(resumeText)
jobMatchButtonDisabled == isAnalyzing \/ ~Truthy(resumeText) \/ ~Truthy(jobDescription)

\* the label of the two buttons
atsButtonLabel == IF isAnalyzing THEN "Analyzing..." ELSE "ATS Health Check"
jobMatchButtonLabel == IF isAnalyzing THEN "Analyzing..." ELSE "Job Match Analysis"

----------------------------------------------------------------------------
(* App *)

\* handleAnalysis that tests the strings without trimming them
handleAnalysis_NoTrim(mode) ==
    IF ~Truthy(resumeText)
    THEN /\ effects' = << <<"handleAnalysis", mode>>, <<"alert", AlertNoResume>> >>
         /\ UNCHANGED <<appVars, inflight>>
    ELSE IF mode = "job-match" /\ ~Truthy(jobDescription)
    THEN /\ effects' = << <<"handleAnalysis", mode>>, <<"alert", AlertNoJobDescription>> >>
         /\ UNCHANGED <<appVars, inflight>>
    ELSE /\ isAnalyzing' = TRUE
         /\ inflight' = Append(inflight,
                NewCall(resumeText,
                        IF mode = "job-match" THEN Some(jobDescription) ELSE None,
                        mode, now))
         /\ effects' = << <<"handleAnalysis", mode>>, <<"setIsAnalyzing", "true">>,
                          <<"analyzeResume", mode>> >>
         /\ UNCHANGED <<resumeText, jobDescription, analysisResult>>

\* handleAnalysis that asks for a job description in either mode
handleAnalysis_AlwaysNeedsJob(mode) ==
    IF ~Truthy(trim(resumeText))
    THEN /\ effects' = << <<"handleAnalysis", mode>>, <<"alert", AlertNoResume>> >>
         /\ UNCHANGED <<appVars, inflight>>
    ELSE IF ~Truthy(trim(jobDescription))
    THEN /\ effects' = << <<"handleAnalysis", mode>>, <<"alert", AlertNoJobDescription>> >>
         /\ UNCHANGED <<appVars, inflight>>
    ELSE /\ isAnalyzing' = TRUE
         /\ inflight' = Append(inflight,
                NewCall(resumeText,
                        IF mode = "job-match" THEN Some(jobDescription) ELSE None,
                        mode, now))
         /\ effects' = << <<"handleAnalysis", mode>>, <<"setIsAnalyzing", "true">>,
                          <<"analyzeResume", mode>> >>
         /\ UNCHANGED <<resumeText, jobDescription, analysisResult>>

\* handleAnalysis that passes the job description in either mode
handleAnalysis_AlwaysPassesJob(mode) ==
    IF ~Truthy(trim(resumeText))
    THEN /\ effects' = << <<"handleAnalysis", mode>>, <<"alert", AlertNoResume>> >>
         /\ UNCHANGED <<appVars, inflight>>
    ELSE IF mode = "job-match" /\ ~Truthy(trim(jobDescription))
    THEN /\ effects' = << <<"handleAnalysis", mode>>, <<"alert", AlertNoJobDescription>> >>
         /\ UNCHANGED <<appVars, inflight>>
    ELSE /\ isAnalyzing' = TRUE
         /\ inflight' = Append(inflight, NewCall(resumeText, Some(jobDescription), mode, now))
         /\ effects' = << <<"handleAnalysis", mode>>, <<"setIsAnalyzing", "true">>,
                          <<"analyzeResume", mode>> >>
         /\ UNCHANGED <<resumeText, jobDescription, analysisResult>>

\* handleAnalysis(mode) up to its await
handleAnalysis(mode) ==
    IF ~Truthy(trim(resumeText))
    THEN /\ effects' = << <<"handleAnalysis", mode>>, <<"alert", AlertNoResume>> >>
         /\ UNCHANGED <<appVars, inflight>>
    ELSE IF mode = "job-match" /\ ~Truthy(trim(jobDescription))
    THEN /\ effects' = << <<"handleAnalysis", mode>>, <<"alert", AlertNoJobDescription>> >>
         /\ UNCHANGED <<appVars, inflight>>
    ELSE /\ isAnalyzing' = TRUE
         /\ inflight' = Append(inflight,
                NewCall(resumeText,
                        IF mode = "job-match" THEN Some(jobDescription) ELSE None,
                        mode, now))
         /\ effects' = << <<"handleAnalysis", mode>>, <<"setIsAnalyzing", "true">>,
                          <<"analyzeResume", mode>> >>
         /\ UNCHANGED <<resumeText, jobDescription, analysisResult>>

\* a click on the 'ATS Health Check' button: onAnalysis('ats')
ClickATS ==
    /\ TaskMayRun
    /\ now <= MaxTime
    /\ ~atsButtonDisabled
    /\ handleAnalysis("ats")
    /\ lastEvent' = [kind |-> "click", arg |-> "ATS Health Check"]
    /\ UNCHANGED now

\* the 'Job Match Analysis' button wired like the button beside it
ClickJobMatch_PassesAts ==
    /\ TaskMayRun
    /\ now <= MaxTime
    /\ ~jobMatchButtonDisabled
    /\ handleAnalysis("ats")
    /\ lastEvent' = [kind |-> "click", arg |-> "Job Match Analysis"]
    /\ UNCHANGED now

\* a click on the 'Job Match Analysis' button: onAnalysis('job-match')
ClickJobMatch ==
    /\ TaskMayRun
    /\ now <= MaxTime
    /\ ~jobMatchButtonDisabled
    /\ handleAnalysis("job-match")
    /\ lastEvent' = [kind |-> "click", arg |-> "Job Match Analysis"]
    /\ UNCHANGED now

\* the continuation without its finally block
HandleAnalysisThen_NoFinally ==
    /\ inflight # << >>
    /\ Head(inflight).stage = "resolved"
    /\ analysisResult' = Head(inflight).result
    /\ inflight' = Tail(inflight)
    /\ effects' = << <<"setAnalysisResult", "result">> >>
    /\ lastEvent' = [kind |-> "then", arg |-> Head(inflight)]
    /\ UNCHANGED <<resumeText, jobDescription, isAnalyzing, now>>

\* handleAnalysis after its await resolved: setAnalysisResult(result), then
\* finally setIsAnalyzing(false), rendered as one update
HandleAnalysisThen ==
    /\ inflight # << >>
    /\ Head(inflight).stage = "resolved"
    /\ analysisResult' = Head(inflight).result
    /\ isAnalyzing' = FALSE
    /\ inflight' = Tail(inflight)
    /\ effects' = << <<"setAnalysisResult", "result">>, <<"setIsAnalyzing", "false">> >>
    /\ lastEvent' = [kind |-> "then", arg |-> Head(inflight)]
    /\ UNCHANGED <<resumeText, jobDescription, now>>

\* the catch block that also drops the result shown
HandleAnalysisCatch_ClearsResult ==
    /\ inflight # << >>
    /\ Head(inflight).stage = "rejected"
    /\ analysisResult' = None
    /\ isAnalyzing' = FALSE
    /\ inflight' = Tail(inflight)
    /\ effects' = << <<"console.error", "Analysis failed:">>, <<"alert", AlertFailed>>,
                     <<"setAnalysisResult", "null">>, <<"setIsAnalyzing", "false">> >>
    /\ lastEvent' = [kind |-> "catch", arg |-> Head(inflight)]
    /\ UNCHANGED <<resumeText, jobDescription, now>>

\* handleAnalysis after its await rejected: catch, then finally
HandleAnalysisCatch ==
    /\ inflight # << >>
    /\ Head(inflight).stage = "rejected"
    /\ isAnalyzing' = FALSE
    /\ inflight' = Tail(inflight)
    /\ effects' = << <<"console.error", "Analysis failed:">>, <<"alert", AlertFailed>>,
                     <<"setIsAnalyzing", "false">> >>
    /\ lastEvent' = [kind |-> "catch", arg |-> Head(inflight)]
    /\ UNCHANGED <<resumeText, jobDescription, analysisResult, now>>

\* the awaited promise rejects instead of resolving: no code of the mock
\* service does this; it stands for a service that fails
TimerReject ==
    /\ ~MicrotaskPending
    /\ inflight # << >>
    /\ Head(inflight).stage = "timer"
    /\ TimerDue(Head(inflight))
    /\ inflight' = [inflight EXCEPT ![1] = [@ EXCEPT !.stage = "rejected"]]
    /\ lastEvent' = [kind |-> "timer", arg |-> Head(inflight).mode]
    /\ effects' = << >>
    /\ UNCHANGED <<appVars, now>>

----------------------------------------------------------------------------
(* The application *)

Init ==
    /\ resumeText = << >>
    /\ jobDescription = << >>
    /\ analysisResult = None
    /\ isAnalyzing = FALSE
    /\ inflight = << >>
    /\ now = 0
    /\ lastEvent = [kind |-> "init", arg |-> "none"]
    /\ effects = << >>

Next ==
    \/ FileInputChange
    \/ JobDescriptionChange
    \/ ClickATS
    \/ ClickJobMatch
    \/ Tick
    \/ TimerFire
    \/ HandleAnalysisThen

Spec == Init /\ [][Next]_vars

\* the event loop runs due timers and queued continuations, and time passes
Fairness == WF_vars(Tick) /\ WF_vars(TimerFire) /\ WF_vars(HandleAnalysisThen)

FairSpec == Spec /\ Fairness

\* the application with a service whose promise may reject
NextRej == Next \/ TimerReject \/ HandleAnalysisCatch

SpecRej == Init /\ [][NextRej]_vars

----------------------------------------------------------------------------
(* App used through the props it hands to its child, by any child *)

\* the texts a child may pass to setResumeText
PropResumeTexts == {<< >>, <<" ", "\n">>, mockResumeText}

\* handleSetResumeText(text)
PropSetResumeText ==
    /\ TaskMayRun
    /\ \E text \in PropResumeTexts :
        /\ text # resumeText
        /\ resumeText' = text
        /\ lastEvent' = [kind |-> "setResumeText", arg |-> text]
    /\ effects' = << <<"setResumeText", "text">> >>
    /\ UNCHANGED <<jobDescription, analysisResult, isAnalyzing, inflight, now>>

\* handleSetJobDescription(text)
PropSetJobDescription ==
    /\ TaskMayRun
    /\ \E text \in JobDescriptions :
        /\ text # jobDescription
        /\ jobDescription' = text
        /\ lastEvent' = [kind |-> "setJobDescription", arg |-> text]
    /\ effects' = << <<"setJobDescription", "value">> >>
    /\ UNCHANGED <<resumeText, analysisResult, isAnalyzing, inflight, now>>

\* onAnalysis(mode), whatever the state
PropOnAnalysis ==
    /\ TaskMayRun
    /\ now <= MaxTime
    /\ Len(inflight) < MaxCalls
    /\ \E mode \in Modes :
        /\ handleAnalysis(mode)
        /\ lastEvent' = [kind |-> "onAnalysis", arg |-> mode]
    /\ UNCHANGED now

PropsNext ==
    \/ PropSetResumeText
    \/ PropSetJobDescription
    \/ PropOnAnalysis
    \/ Tick
    \/ TimerFire
    \/ HandleAnalysisThen

PropsSpec == Init /\ [][PropsNext]_vars

----------------------------------------------------------------------------
(* ResultsPanel on its own, rendered with any props *)

\* scores an AnalysisResult may carry: absent, 0, and one in each colour band
PanelScores == {None, Some(0), Some(5), Some(7), Some(9)}

PanelFeedbacks == {atsFeedback, "<img src=x onerror=alert(1)>"}

\* the values of interface AnalysisResult the panel is rendered with
PanelResults ==
    {AnalysisResult(mode, ats, match, feedback, 0) :
        mode \in Modes, ats \in PanelScores, match \in PanelScores,
        feedback \in PanelFeedbacks}

\* a parent renders <ResultsPanel result={...} isAnalyzing={...} />
PanelRender ==
    /\ \E result \in {None} \cup {Some(r) : r \in PanelResults}, analyzing \in BOOLEAN :
        /\ analysisResult' = result
        /\ isAnalyzing' = analyzing
    /\ lastEvent' = [kind |-> "render", arg |-> "none"]
    /\ effects' = << >>
    /\ UNCHANGED <<resumeText, jobDescription, inflight, now>>

PanelSpec == Init /\ [][PanelRender]_vars

----------------------------------------------------------------------------
(* The service on its own, called directly with any arguments *)

SvcResumeTexts == {mockResumeText, <<"a">>}
SvcJobDescriptions == {None, Some(<< >>), Some(<<"a", " ">>)}
SvcModeArgs == Modes \cup {"undefined"}

\* a caller invokes AnalysisService.analyzeResume(resumeText, jobDescription?, mode?)
SvcCall ==
    /\ TaskMayRun
    /\ now <= MaxTime
    /\ Len(inflight) < MaxCalls
    /\ \E rt \in SvcResumeTexts, jd \in SvcJobDescriptions, m \in SvcModeArgs :
        inflight' = Append(inflight, NewCall(rt, jd, m, now))
    /\ lastEvent' = [kind |-> "call", arg |-> "none"]
    /\ effects' = << >>
    /\ UNCHANGED <<appVars, now>>

\* the caller's continuation receives the value the promise resolved with
SvcSettle ==
    /\ inflight # << >>
    /\ Head(inflight).stage # "timer"
    /\ inflight' = Tail(inflight)
    /\ lastEvent' = [kind |-> "settled", arg |-> Head(inflight)]
    /\ effects' = << >>
    /\ UNCHANGED <<appVars, now>>

SvcNext ==
    \/ SvcCall
    \/ Tick
    \/ TimerFire
    \/ SvcSettle

SvcSpec == Init /\ [][SvcNext]_vars

SvcFairness == WF_vars(Tick) /\ WF_vars(TimerFire) /\ WF_vars(SvcSettle)

SvcFairSpec == SvcSpec /\ SvcFairness

----------------------------------------------------------------------------
(* Claims about AnalysisService *)

\* the call whose promise the last step consumed, and its result
SettledCall == lastEvent.arg
SettledResult == Get(lastEvent.arg.result)
JustSettled == lastEvent.kind = "settled" /\ lastEvent.arg.result # None

\* C1: the result of analyzeResume is the one of the requested mode ('ats'
\* when mode is omitted): mode 'ats' gives mode 'ats', an atsScore and no
\* matchScore; mode 'job-match' gives mode 'job-match', a matchScore and no
\* atsScore.
C1_ResultChosenByMode ==
    JustSettled =>
        LET requested == IF SettledCall.mode = "undefined" THEN "ats" ELSE SettledCall.mode
            r == SettledResult
        IN  /\ r.mode = requested
            /\ requested = "ats" => r.atsScore # None /\ r.matchScore = None
            /\ requested = "job-match" => r.matchScore # None /\ r.atsScore = None

\* a call that omitted mode has resolved
C1_Witness ==
    /\ JustSettled
    /\ SettledCall.mode = "undefined"
    /\ SettledResult.mode = "ats"
    /\ SettledResult.atsScore # None

\* every call in flight is waiting for its timer without a result, or has
\* resolved with a result no earlier than AnalysisDelay after the call
C2_Safe ==
    /\ \A i \in 1 .. Len(inflight) :
        LET c == inflight[i]
        IN  /\ c.stage \in {"timer", "resolved"}
            /\ c.stage = "timer" => c.result = None
            /\ c.stage = "resolved" =>
                /\ c.result # None
                /\ now - c.startedAt >= AnalysisDelay
                /\ Get(c.result).timestamp - c.startedAt >= AnalysisDelay
    /\ lastEvent.kind = "settled" =>
        /\ lastEvent.arg.stage = "resolved"
        /\ lastEvent.arg.result # None

\* the oldest call in flight was made with mode argument m
OldestIs(m) ==
    /\ inflight # << >>
    /\ Head(inflight).mode = m

\* a call made with mode argument m has just resolved
SettledIs(m) ==
    /\ JustSettled
    /\ SettledCall.mode = m
    /\ SettledCall.stage = "resolved"

\* C2: every call of analyzeResume eventually resolves with a result and never
\* rejects, and no result exists before its 2000 ms timer has fired.
C2_ResolvesAfterTimer ==
    /\ []C2_Safe
    /\ \A m \in SvcModeArgs : OldestIs(m) ~> SettledIs(m)

\* a call made after the start has resolved, at least AnalysisDelay later
C2_Witness ==
    /\ JustSettled
    /\ SettledCall.startedAt > 0
    /\ SettledResult.timestamp >= SettledCall.startedAt + AnalysisDelay

ScoreOf(r) == IF r.atsScore # None THEN Get(r.atsScore) ELSE Get(r.matchScore)

\* the draws of Math.random() for which a call with these arguments scores v
DrawsGiving(rt, jd, m, v) ==
    {rnd \in RandomDraws : ScoreOf(analyzeResume(rt, jd, m, rnd, 0)) = v}

\* C3: the feedback depends only on mode: a call with the same mode and any
\* other resumeText / jobDescription returns the identical feedback, and every
\* score comes from the same draws of Math.random(), so the distribution of
\* the score is the same.
C3_FeedbackDependsOnlyOnMode ==
    JustSettled =>
        \A rt \in SvcResumeTexts, jd \in SvcJobDescriptions :
            /\ \A rnd \in RandomDraws :
                analyzeResume(rt, jd, SettledCall.mode, rnd, now).feedback
                    = SettledResult.feedback
            /\ \A v \in 0 .. 10 :
                DrawsGiving(rt, jd, SettledCall.mode, v)
                    = DrawsGiving(SettledCall.resumeText, SettledCall.jobDescription,
                                  SettledCall.mode, v)

\* a job-match call with a resume and a job description of its own has resolved
C3_Witness ==
    /\ JustSettled
    /\ SettledCall.mode = "job-match"
    /\ SettledCall.resumeText = <<"a">>
    /\ SettledCall.jobDescription = Some(<<"a", " ">>)
    /\ SettledResult.feedback = jobMatchFeedback

\* the oldest call waits for its timer and will run generateATSAnalysis
ATSCallWaiting ==
    /\ inflight # << >>
    /\ Head(inflight).stage = "timer"
    /\ modeOrDefault(Head(inflight).mode) = "ats"

\* the oldest call waits for its timer and will run generateJobMatchAnalysis
JobMatchCallWaiting ==
    /\ inflight # << >>
    /\ Head(inflight).stage = "timer"
    /\ modeOrDefault(Head(inflight).mode) = "job-match"

\* the results the oldest call can resolve with
PossibleResults ==
    LET c == Head(inflight)
    IN  {analyzeResume(c.resumeText, c.jobDescription, c.mode, rnd, now) :
            rnd \in RandomDraws}

\* C4: the ATS score is an integer between 7 and 10: every returned atsScore
\* lies in 7..10, and each of 7, 8, 9 and 10 can be returned.
C4_ATSScore7To10 ==
    /\ JustSettled /\ SettledResult.mode = "ats" =>
        Get(SettledResult.atsScore) \in 7 .. 10
    /\ ATSCallWaiting =>
        \A v \in 7 .. 10 : \E r \in PossibleResults : r.atsScore = Some(v)

\* C5: the job-match score is an integer between 6 and 10: every returned
\* matchScore lies in 6..10, and each of 6, 7, 8, 9 and 10 can be returned.
C5_MatchScore6To10 ==
    /\ JustSettled /\ SettledResult.mode = "job-match" =>
        Get(SettledResult.matchScore) \in 6 .. 10
    /\ JobMatchCallWaiting =>
        \A v \in 6 .. 10 : \E r \in PossibleResults : r.matchScore = Some(v)

----------------------------------------------------------------------------
(* Claims about the application *)

\* the alerts the last step showed, in order
Alerts == SelectSeq(effects, LAMBDA e : e[1] = "alert")
AlertsNext == SelectSeq(effects', LAMBDA e : e[1] = "alert")

\* the operations the last step performed, in order
Ops == [i \in 1 .. Len(effects) |-> effects[i][1]]
OpsNext == [i \in 1 .. Len(effects') |-> effects'[i][1]]

InSeq(x, seq) == \E i \in 1 .. Len(seq) : seq[i] = x

UploadedPdf == lastEvent.kind = "upload" /\ lastEvent.arg.type = "application/pdf"

\* C6: uploading any file of type 'application/pdf' sets resumeText to the one
\* fixed sample text, whatever the file's name or content, and shows the
\* success alert.
C6_PdfUploadSetsSampleText ==
    UploadedPdf =>
        /\ resumeText = mockResumeText
        /\ effects = << <<"setResumeText", "mockResumeText">>, <<"alert", AlertUploaded>> >>

\* the second of the two PDFs was uploaded
C6_Witness ==
    /\ UploadedPdf
    /\ lastEvent.arg.name = "resume.pdf"
    /\ lastEvent.arg.content = "bob"
    /\ resumeText = mockResumeText

\* C7: uploading a file whose type is not 'application/pdf' shows the alert
\* 'Please upload a PDF file', does not call setResumeText and leaves
\* resumeText, jobDescription, analysisResult and isAnalyzing as they were.
C7_NonPdfRejected ==
    [][(lastEvent'.kind = "upload" /\ lastEvent'.arg.type # "application/pdf") =>
            /\ effects' = << <<"alert", AlertNotPdf>> >>
            /\ ~InSeq("setResumeText", OpsNext)
            /\ UNCHANGED appVars]_vars

\* a file named *.pdf that is no PDF by its type was rejected and the resume
\* uploaded before is still there
C7_Witness ==
    /\ lastEvent.kind = "upload"
    /\ lastEvent.arg.type # "application/pdf"
    /\ lastEvent.arg.name = "broken.pdf"
    /\ resumeText = mockResumeText
    /\ Alerts = << <<"alert", AlertNotPdf>> >>

\* C8: ResultsPanel renders exactly one of three views: the spinner when
\* isAnalyzing is true (even with an earlier result), else the empty state when
\* result is null, else the result card; the card is shown if and only if
\* isAnalyzing is false and result is non-null.
C8_OneOfThreeViews ==
    /\ Panel.view \in {"spinner", "empty", "card"}
    /\ isAnalyzing => Panel.view = "spinner"
    /\ ~isAnalyzing /\ analysisResult = None => Panel.view = "empty"
    /\ Panel.view = "card" <=> (~isAnalyzing /\ analysisResult # None)
    /\ Panel.view = "card" => Panel.html = Get(analysisResult).feedback

\* an analysis runs while the result of an earlier one exists
C8_Witness ==
    /\ isAnalyzing
    /\ analysisResult # None
    /\ Panel.view = "spinner"

\* the steps of one analysis: isAnalyzing turns true exactly in a click that
\* passes validation and starts the call; analysisResult changes only in the
\* continuation of a resolved call, to that call's result, which is of the
\* clicked mode, and isAnalyzing turns false in the same step
C9_Steps ==
    /\ (~isAnalyzing /\ isAnalyzing') =>
        /\ lastEvent'.kind = "click"
        /\ Len(AlertsNext) = 0
        /\ inflight = << >>
        /\ Len(inflight') = 1
        /\ inflight'[1].stage = "timer"
        /\ inflight'[1].mode = effects'[1][2]
    /\ (lastEvent'.kind = "click" /\ Len(AlertsNext) = 0 /\ ~isAnalyzing) => isAnalyzing'
    /\ analysisResult' # analysisResult =>
        /\ isAnalyzing
        /\ inflight # << >>
        /\ Head(inflight).stage = "resolved"
        /\ analysisResult' = Head(inflight).result
        /\ Get(analysisResult').mode = Head(inflight).mode
        /\ ~isAnalyzing'
    /\ (isAnalyzing /\ ~isAnalyzing') =>
        /\ lastEvent'.kind = "then"
        /\ analysisResult' = Head(inflight).result

\* an analysis of mode m has been started and not finished
AnalysisRunning(m) ==
    /\ isAnalyzing
    /\ inflight # << >>
    /\ Head(inflight).mode = m

\* the result card shows the result of an analysis of mode m that just ended
ResultShown(m) ==
    /\ ~isAnalyzing
    /\ lastEvent.kind = "then"
    /\ analysisResult = lastEvent.arg.result
    /\ analysisResult # None
    /\ Get(analysisResult).mode = m
    /\ Panel.view = "card"
    /\ Panel.html = Get(analysisResult).feedback

\* C9: after a click that passes validation isAnalyzing becomes true, the
\* promise is awaited, analysisResult is set to the result for the clicked mode
\* and isAnalyzing becomes false; analysisResult never changes while no
\* analysis was started; every started analysis leads to a state with
\* isAnalyzing false and the result card showing its result.
C9_AnalysisSequence ==
    /\ [][C9_Steps]_vars
    /\ \A m \in Modes : AnalysisRunning(m) ~> ResultShown(m)

\* a job-match analysis has ended and its card is shown
C9_Witness == ResultShown("job-match")

\* C10: when analyzeResume rejects, handleAnalysis shows exactly one alert
\* ('Analysis failed. Please try again.'), leaves analysisResult as it was,
\* sets isAnalyzing to false, lets nothing escape and starts no other call.
C10_RejectionHandled ==
    [][(inflight # << >> /\ Head(inflight).stage = "rejected") =>
            /\ AlertsNext = << <<"alert", AlertFailed>> >>
            /\ analysisResult' = analysisResult
            /\ ~isAnalyzing'
            /\ inflight' = Tail(inflight)
            /\ OpsNext = <<"console.error", "alert", "setIsAnalyzing">>
            /\ lastEvent'.kind = "catch"]_vars

\* a second analysis was rejected and the result of the first is still there
C10_Witness ==
    /\ lastEvent.kind = "catch"
    /\ analysisResult # None
    /\ ~isAnalyzing
    /\ inflight = << >>
    /\ Alerts = << <<"alert", AlertFailed>> >>


----------------------------------------------------------------------------
(* Claims about the buttons and the validation *)

\* the mode a button passes to onAnalysis
ModeOfButton(button) == IF button = "ATS Health Check" THEN "ats" ELSE "job-match"

\* the step invoked onAnalysis (handleAnalysis)
OnAnalysisInvokedNext ==
    /\ InSeq("handleAnalysis", OpsNext)
    /\ effects' # effects \/ lastEvent' # lastEvent

\* C11: onAnalysis is invoked with the mode of the button clicked: 'ats' by the
\* 'ATS Health Check' button, 'job-match' by the 'Job Match Analysis' button,
\* once per click; no other user action invokes it.
C11_ModeMatchesButton ==
    [][/\ OnAnalysisInvokedNext =>
            /\ lastEvent'.kind = "click"
            /\ lastEvent'.arg \in {"ATS Health Check", "Job Match Analysis"}
       /\ lastEvent'.kind = "click" =>
            /\ effects'[1] = <<"handleAnalysis", ModeOfButton(lastEvent'.arg)>>
            /\ Cardinality({i \in 1 .. Len(effects') : effects'[i][1] = "handleAnalysis"}) = 1
       /\ lastEvent'.kind \in {"upload", "type"} => ~InSeq("handleAnalysis", OpsNext)]_vars

\* the 'Job Match Analysis' button was clicked and passed 'job-match'
C11_Witness ==
    /\ lastEvent.kind = "click"
    /\ lastEvent.arg = "Job Match Analysis"
    /\ effects[1] = <<"handleAnalysis", "job-match">>
    /\ isAnalyzing


\* no call in flight has sent a request, and each waits for its timer or has
\* resolved
C12_Local ==
    \A i \in 1 .. Len(inflight) :
        /\ networkRequests(inflight[i]) = << >>
        /\ inflight[i].stage \in {"timer", "resolved"}

\* the call that waits is taken further only by its own timer task, once due,
\* and its result is the one the service computes locally
C12_OnlyTheTimer ==
    (/\ inflight # << >>
     /\ Head(inflight).stage = "timer"
     /\ inflight' # << >>
     /\ Head(inflight') # Head(inflight)) =>
        /\ lastEvent'.kind = "timer"
        /\ TimerDue(Head(inflight))
        /\ Head(inflight').stage = "resolved"
        /\ \E rnd \in RandomDraws :
            Head(inflight').result =
                Some(analyzeResume(Head(inflight).resumeText, Head(inflight).jobDescription,
                                   Head(inflight).mode, rnd, now))

C13_PostsToBackend ==
    \A i \in 1 .. Len(inflight) :
        /\ Len(networkRequests(inflight[i])) = 1
        /\ networkRequests(inflight[i])[1].method = "POST"
        /\ networkRequests(inflight[i])[1].url = "http://localhost:8000/api/analyze"
        /\ networkRequests(inflight[i])[1].contentType = "application/json"


\* onAnalysis(mode) was just called through the prop
CalledOnAnalysisNext(mode) ==
    /\ lastEvent'.kind = "onAnalysis"
    /\ lastEvent'.arg = mode
    /\ effects' # effects \/ lastEvent' # lastEvent

Blank(s) == \A i \in 1 .. Len(s) : s[i] \in Whitespace

\* C14: handleAnalysis called while resumeText is empty or whitespace-only, in
\* either mode, shows 'Please upload a resume first' and returns without
\* calling the service: isAnalyzing is not set and analysisResult, resumeText
\* and jobDescription are unchanged.
C14_NoResumeAlert ==
    [][\A mode \in Modes :
        (CalledOnAnalysisNext(mode) /\ Blank(resumeText)) =>
            /\ effects' = << <<"handleAnalysis", mode>>, <<"alert", AlertNoResume>> >>
            /\ ~InSeq("analyzeResume", OpsNext)
            /\ inflight' = inflight
            /\ isAnalyzing' = isAnalyzing
            /\ ~isAnalyzing => ~isAnalyzing'
            /\ UNCHANGED <<analysisResult, resumeText, jobDescription>>]_vars

\* handleAnalysis('job-match') was called with a whitespace-only resume and a
\* job description
C14_Witness ==
    /\ lastEvent.kind = "onAnalysis"
    /\ lastEvent.arg = "job-match"
    /\ resumeText = <<" ", "\n">>
    /\ Truthy(trim(jobDescription))
    /\ Alerts = << <<"alert", AlertNoResume>> >>
    /\ ~isAnalyzing

\* C15: handleAnalysis('job-match') with a non-blank resume and an empty or
\* whitespace-only jobDescription shows the job-description alert and returns
\* without calling the service; handleAnalysis('ats') does not need a job
\* description and starts the analysis with any, the empty one included.
C15_JobDescriptionNeededForJobMatchOnly ==
    [][/\ (CalledOnAnalysisNext("job-match") /\ ~Blank(resumeText) /\ Blank(jobDescription)) =>
            /\ effects' = << <<"handleAnalysis", "job-match">>,
                             <<"alert", AlertNoJobDescription>> >>
            /\ inflight' = inflight
            /\ UNCHANGED appVars
       /\ (CalledOnAnalysisNext("ats") /\ ~Blank(resumeText)) =>
            /\ Len(AlertsNext) = 0
            /\ isAnalyzing'
            /\ inflight' = Append(inflight, NewCall(resumeText, None, "ats", now))]_vars

\* handleAnalysis('job-match') was called with a resume and a whitespace-only
\* job description
C15_Witness ==
    /\ lastEvent.kind = "onAnalysis"
    /\ lastEvent.arg = "job-match"
    /\ resumeText = mockResumeText
    /\ jobDescription = <<" ">>
    /\ Alerts = << <<"alert", AlertNoJobDescription>> >>
    /\ ~isAnalyzing


\* a click on a button started a call of analyzeResume
ClickStartedCallNext ==
    /\ lastEvent'.kind = "click"
    /\ Len(inflight') = Len(inflight) + 1

\* C16: handleAnalysis passes the job description to analyzeResume only in
\* 'job-match' mode: in 'ats' mode the argument is undefined whatever the text
\* area holds, in 'job-match' mode it is the current, non-blank jobDescription.
C16_JobDescriptionArgument ==
    [][ClickStartedCallNext =>
        LET mode == ModeOfButton(lastEvent'.arg)
            call == inflight'[Len(inflight')]
        IN  /\ call.mode = mode
            /\ call.resumeText = resumeText
            /\ mode = "ats" => call.jobDescription = None
            /\ mode = "job-match" =>
                /\ call.jobDescription = Some(jobDescription)
                /\ ~Blank(jobDescription)]_vars

\* an ATS analysis was started while the text area held a job description
C16_Witness ==
    /\ lastEvent.kind = "click"
    /\ lastEvent.arg = "ATS Health Check"
    /\ Truthy(trim(jobDescription))
    /\ Len(inflight) = 1
    /\ inflight[1].jobDescription = None
    /\ inflight[1].mode = "ats"


\* the attributes of the two buttons as stated: disabled while analyzing or
\* without a resume (and, for job match, without a job description); the label
\* is 'Analyzing...' exactly while analyzing
C17_Attributes ==
    /\ atsButtonDisabled <=> (isAnalyzing \/ Len(resumeText) = 0)
    /\ jobMatchButtonDisabled <=>
        (isAnalyzing \/ Len(resumeText) = 0 \/ Len(jobDescription) = 0)
    /\ atsButtonLabel = "Analyzing..." <=> isAnalyzing
    /\ jobMatchButtonLabel = "Analyzing..." <=> isAnalyzing
    /\ ~isAnalyzing => atsButtonLabel = "ATS Health Check"
    /\ ~isAnalyzing => jobMatchButtonLabel = "Job Match Analysis"

\* a button is clicked only in a state where it is not disabled as stated
C17_ClickOnlyWhenEnabled ==
    (lastEvent'.kind = "click" /\ (effects' # effects \/ lastEvent' # lastEvent)) =>
        /\ ~isAnalyzing
        /\ Len(resumeText) > 0
        /\ lastEvent'.arg = "Job Match Analysis" => Len(jobDescription) > 0

\* C17: the 'ATS Health Check' button is disabled exactly when isAnalyzing is
\* true or resumeText is empty, the 'Job Match Analysis' button exactly when
\* isAnalyzing is true or resumeText or jobDescription is empty; both show
\* 'Analyzing...' exactly when isAnalyzing is true.
C17_ButtonsDisabled ==
    /\ []C17_Attributes
    /\ [][C17_ClickOnlyWhenEnabled]_vars

\* a resume is there and no job description: one button enabled, one disabled
C17_Witness ==
    /\ ~isAnalyzing
    /\ resumeText = mockResumeText
    /\ jobDescription = << >>
    /\ ~atsButtonDisabled
    /\ jobMatchButtonDisabled
    /\ atsButtonLabel = "ATS Health Check"


\* at most one call is in flight, and one is in flight only while isAnalyzing
C18_OneInFlight ==
    /\ Len(inflight) <= 1
    /\ inflight # << >> => isAnalyzing
    /\ ~isAnalyzing => inflight = << >>

\* while the result card is shown no step replaces the result
C18_CardIsStable == Panel.view = "card" => analysisResult' = analysisResult

\* C18: at most one analysis is in flight and isAnalyzing is true whenever a
\* call of analyzeResume is pending: after any uploads, edits and clicks,
\* isAnalyzing false implies no promise is outstanding, so no late result
\* overwrites analysisResult while the result card is shown.
C18_SingleAnalysis ==
    /\ []C18_OneInFlight
    /\ [][C18_CardIsStable]_vars

\* during a second analysis the user edited the job description
C18_Witness ==
    /\ lastEvent.kind = "type"
    /\ isAnalyzing
    /\ Len(inflight) = 1
    /\ analysisResult # None


\* a button was clicked
ClickedNext ==
    /\ lastEvent'.kind = "click"
    /\ effects' # effects \/ lastEvent' # lastEvent

\* the click passed both guards and started the analysis
StartedNext ==
    /\ Len(AlertsNext) = 0
    /\ isAnalyzing'
    /\ Len(inflight') = Len(inflight) + 1
    /\ InSeq("analyzeResume", OpsNext)

\* C19 as stated: whenever an analysis button is enabled, clicking it passes
\* both validation guards, shows no alert and sets isAnalyzing to true.
C19_EnabledClickStarts ==
    [][ClickedNext => StartedNext]_vars

\* C19, amended: a click on the enabled 'ATS Health Check' button starts an
\* analysis; a click on the enabled 'Job Match Analysis' button starts one
\* unless jobDescription is whitespace-only, in which case the job-description
\* alert is shown and nothing is started.
C19_EnabledClickStartsUnlessBlankJob ==
    [][ClickedNext =>
        IF lastEvent'.arg = "ATS Health Check" \/ ~Blank(jobDescription)
        THEN StartedNext
        ELSE /\ AlertsNext = << <<"alert", AlertNoJobDescription>> >>
             /\ ~InSeq("analyzeResume", OpsNext)
             /\ inflight' = inflight
             /\ UNCHANGED appVars]_vars

\* the enabled 'Job Match Analysis' button was clicked on a job description of
\* blanks only: an alert, no analysis
C19_Witness ==
    /\ lastEvent.kind = "click"
    /\ lastEvent.arg = "Job Match Analysis"
    /\ Truthy(jobDescription)
    /\ Blank(jobDescription)
    /\ ~jobMatchButtonDisabled
    /\ Alerts = << <<"alert", AlertNoJobDescription>> >>
    /\ inflight = << >>


----------------------------------------------------------------------------
(* Claims about the result card *)

\* the score of a result: atsScore if defined, otherwise matchScore
DefinedScore(r) == IF r.atsScore # None THEN r.atsScore ELSE r.matchScore

\* C20: the result card shows the score badge exactly when atsScore or
\* matchScore is defined; the number shown as 'Score: n/10' is the defined
\* score (atsScore if defined, otherwise matchScore, the value 0 included) and
\* colour and icon are computed from that number; the title is 'ATS Health
\* Check Results' exactly when mode is 'ats'; the feedback is rendered as is.
C20_CardShowsDefinedScore ==
    Panel.view = "card" =>
        LET r == Get(analysisResult)
        IN  /\ Panel.badge # None <=> (r.atsScore # None \/ r.matchScore # None)
            /\ Panel.badge # None =>
                /\ Get(Panel.badge).score = DefinedScore(r)
                /\ Get(Panel.badge).color = getScoreColor(Get(DefinedScore(r)))
                /\ Get(Panel.badge).icon = getScoreIcon(Get(DefinedScore(r)))
            /\ Panel.title = "ATS Health Check Results" <=> r.mode = "ats"
            /\ Panel.html = r.feedback

====
